---- MODULE Spec2Model ----
(***************************************************************************)
(* Model of the metrics computations of the two dashboard scripts,         *)
(* src/Home.py and src/main.py.  Both scripts read the same CSV, coerce    *)
(* the value column to numbers, sort by date, and derive total return,     *)
(* CAGR, the drawdown series and its minimum.                              *)
(*                                                                         *)
(* Modelled: Home.py lines 68-105 and main.py lines 15-34 and 108-123.     *)
(* Not modelled: the benchmark download and its chart (Home.py 22-65),     *)
(* the monthly and yearly resampling (main.py 52-104), the holdings and    *)
(* transaction tables, and every rendering call; none of them writes a     *)
(* variable the modelled lines read.                                       *)
(*                                                                         *)
(* Numbers: the scripts compute in IEEE doubles.  The model computes in    *)
(* exact rationals extended with NaN and +/-inf, which keeps every         *)
(* comparison, sign and special value of the float computation and drops   *)
(* only rounding.  A fractional power is kept symbolically.                *)
(***************************************************************************)
EXTENDS Integers, Sequences, FiniteSets, TLC

\* ---------------------------------------------------------------- bounds
MaxRows == 3
MaxDate == 2

\* ------------------------------------------------------ extended rationals
RECURSIVE Gcd(_, _)
Gcd(a, b) == IF b = 0 THEN a ELSE Gcd(b, a % b)

IAbs(x) == IF x < 0 THEN -x ELSE x
Sgn(x) == IF x < 0 THEN -1 ELSE 1

NaN == [k |-> "nan", n |-> 0, d |-> 1]
Inf(s) == [k |-> "inf", n |-> s, d |-> 1]
Unset == [k |-> "unset", n |-> 0, d |-> 1]

Rat(n, d) ==
    LET g == Gcd(IAbs(n), IAbs(d))
    IN  [k |-> "num", n |-> (Sgn(d) * n) \div g, d |-> IAbs(d) \div g]

Num(i) == Rat(i, 1)
Zero == Num(0)
One == Num(1)

IsNaN(a) == a.k = "nan"
IsInf(a) == a.k = "inf"
IsNum(a) == a.k = "num"

\* float division: x/0 is +/-inf, 0/0 is NaN, nothing raises
FDiv(a, b) ==
    IF IsNaN(a) \/ IsNaN(b) THEN NaN
    ELSE IF IsInf(a) THEN (IF IsInf(b) THEN NaN ELSE Inf(a.n * Sgn(b.n)))
    ELSE IF IsInf(b) THEN Zero
    ELSE IF b.n = 0 THEN (IF a.n = 0 THEN NaN ELSE Inf(Sgn(a.n)))
    ELSE Rat(a.n * b.d, a.d * b.n)

FSub(a, b) ==
    IF IsNaN(a) \/ IsNaN(b) THEN NaN
    ELSE IF IsInf(a) THEN (IF IsInf(b) /\ b.n = a.n THEN NaN ELSE a)
    ELSE IF IsInf(b) THEN Inf(-b.n)
    ELSE Rat(a.n * b.d - b.n * a.d, a.d * b.d)

FAbs(a) == IF IsNaN(a) THEN NaN ELSE [a EXCEPT !.n = IAbs(a.n)]

\* a < b, False whenever an operand is NaN
FLess(a, b) ==
    IF IsNaN(a) \/ IsNaN(b) THEN FALSE
    ELSE IF IsInf(a) THEN a.n = -1 /\ ~(IsInf(b) /\ b.n = -1)
    ELSE IF IsInf(b) THEN b.n = 1
    ELSE a.n * b.d < b.n * a.d

\* a == b, False whenever an operand is NaN
FEq(a, b) == ~IsNaN(a) /\ ~IsNaN(b) /\ a = b

FLe(a, b) == FLess(a, b) \/ FEq(a, b)

\* ------------------------------------------------------------- CSV input
NumericCells == {"-1", "0", "1", "2"}
RawCells == NumericCells \cup {"abc"}
Dates == 1..MaxDate

RawRows == [current_date : Dates, total_portfolio_value : RawCells]

RECURSIVE SeqsUpTo(_, _)
SeqsUpTo(S, n) ==
    IF n = 0 THEN {<<>>}
    ELSE LET prev == SeqsUpTo(S, n - 1)
         IN  prev \cup {Append(s, x) : s \in {t \in prev : Len(t) = n - 1}, x \in S}

\* pd.to_numeric(..., errors="coerce"): a cell that does not parse is NaN
to_numeric(cell) ==
    CASE cell = "-1" -> Num(-1)
      [] cell = "0"  -> Num(0)
      [] cell = "1"  -> Num(1)
      [] cell = "2"  -> Num(2)
      [] OTHER       -> NaN

coerce(df) ==
    [i \in 1..Len(df) |->
        [current_date |-> df[i].current_date,
         total_portfolio_value |-> to_numeric(df[i].total_portfolio_value)]]

\* sort_values(by=date_column) uses the default kind="quicksort", which is
\* not a stable sort: the rows come out ascending by date, the rows of one
\* date in any order.  Arrange(df, I) is every such ordering of the rows I.
RECURSIVE Arrange(_, _)
Arrange(df, I) ==
    IF I = {} THEN {<<>>}
    ELSE LET earliest == {i \in I : \A j \in I : df[i].current_date <= df[j].current_date}
         IN  UNION {{<<df[i]>> \o t : t \in Arrange(df, I \ {i})} : i \in earliest}

sort_values(df) == Arrange(df, 1..Len(df))

\* the outcome of a sort that keeps the rows of one date in their order
RECURSIVE stable_sort(_, _)
stable_sort(df, I) ==
    IF I = {} THEN <<>>
    ELSE LET i == CHOOSE i \in I : \A j \in I \ {i} :
                      \/ df[i].current_date < df[j].current_date
                      \/ df[i].current_date = df[j].current_date /\ i < j
         IN  <<df[i]>> \o stable_sort(df, I \ {i})

\* --------------------------------------------------------- pandas helpers
SetMax(S) == CHOOSE x \in S : \A y \in S : y <= x

date_index(df) == {df[i].current_date : i \in 1..Len(df)}

sort_index(S) ==
    CHOOSE s \in [1..Cardinality(S) -> S] :
        \A i, j \in 1..Cardinality(S) : i < j => s[i] < s[j]

\* GroupBy.last() without the skipping of NaN: the value of the last row
last_row(df, date) ==
    df[SetMax({i \in 1..Len(df) : df[i].current_date = date})].total_portfolio_value

\* GroupBy.last() of one date: the last value that is not NaN, in the row
\* order of the frame; NaN when the date has no such value
last(df, date) ==
    LET valid == {i \in 1..Len(df) : /\ df[i].current_date = date
                                      /\ ~IsNaN(df[i].total_portfolio_value)}
    IN  IF valid = {} THEN NaN ELSE df[SetMax(valid)].total_portfolio_value

\* df.groupby(date_column)[...].last(): one entry per date, ascending
groupby_last(df) ==
    LET idx == sort_index(date_index(df))
    IN  [i \in 1..Len(idx) |->
            [current_date |-> idx[i], total_portfolio_value |-> last(df, idx[i])]]

values(df) == [i \in 1..Len(df) |-> df[i].total_portfolio_value]

FMax2(a, b) == IF FLess(a, b) THEN b ELSE a
FMin2(a, b) == IF FLess(b, a) THEN b ELSE a

RECURSIVE MaxUpTo(_, _)
MaxUpTo(s, i) ==
    IF i = 0 THEN NaN
    ELSE LET m == MaxUpTo(s, i - 1)
         IN  IF IsNaN(s[i]) THEN m ELSE IF IsNaN(m) THEN s[i] ELSE FMax2(m, s[i])

\* the maximum of the whole series in place of the running maximum
whole_max(s) == [i \in 1..Len(s) |-> IF IsNaN(s[i]) THEN NaN ELSE MaxUpTo(s, Len(s))]

\* Series.cummax(): NaN stays NaN, the running maximum skips NaN
cummax(s) == [i \in 1..Len(s) |-> IF IsNaN(s[i]) THEN NaN ELSE MaxUpTo(s, i)]

RECURSIVE MinUpTo(_, _)
MinUpTo(s, i) ==
    IF i = 0 THEN NaN
    ELSE LET m == MinUpTo(s, i - 1)
         IN  IF IsNaN(s[i]) THEN m ELSE IF IsNaN(m) THEN s[i] ELSE FMin2(m, s[i])

\* Series.min(): skips NaN, NaN when nothing is left
min(s) == MinUpTo(s, Len(s))

\* Home.py 97-98 and main.py 32-33:
\* (portfolio_values - running_max) / running_max
drawdown(s) ==
    LET running_max == cummax(s)
    IN  [i \in 1..Len(s) |-> FDiv(FSub(s[i], running_max[i]), running_max[i])]

\* main.py 122-123: value / running_max - 1
chart_drawdown(s) ==
    LET running_max == cummax(s)
    IN  [i \in 1..Len(s) |-> FSub(FDiv(s[i], running_max[i]), One)]

\* x ** (1 / years) - 1 with years = days / 365.25 > 0.  The exponent
\* 1461 / (4 * days) is never an integer, so a negative base gives NaN and
\* an infinite base +inf; the powers of 0 and 1 are exact; any other power
\* is kept as a term, with the sign of the result in n.
growth(x, days) ==
    IF IsNaN(x) THEN NaN
    ELSE IF IsInf(x) THEN Inf(1)
    ELSE IF x.n < 0 THEN NaN
    ELSE IF x = Zero THEN Num(-1)
    ELSE IF x = One THEN Zero
    ELSE [k |-> "pow", n |-> Sgn(x.n - x.d), d |-> 1, base |-> x, days |-> days]

\* cagr / abs(max_drawdown), for a cagr that may be a term
quotient(c, m) ==
    IF c.k # "pow" THEN FDiv(c, m)
    ELSE IF IsNaN(m) THEN NaN
    ELSE IF IsInf(m) THEN Zero
    ELSE IF m.n = 0 THEN Inf(c.n)
    ELSE [k |-> "quot", n |-> c.n * Sgn(m.n), d |-> 1, num |-> c, den |-> m]

\* ------------------------------------------------------------------ state
\* csv: the rows of dataa.csv; Home, main: the variables of one run of
\* each script (pc: the block it is about to execute, error: the exception
\* that ended it, divisors: the divisors of its guarded scalar divisions)
VARIABLES csv, Home, main

vars == <<csv, Home, main>>

Blank ==
    [pc |-> "load", error |-> "none", main_df |-> <<>>, portfolio_values |-> <<>>,
     total_return |-> Unset, days |-> 0, cagr |-> Unset, drawdown |-> <<>>,
     max_drawdown |-> Unset, sharpe_ratio |-> Unset, divisors |-> {}]

Init ==
    /\ csv \in SeqsUpTo(RawRows, MaxRows)
    /\ Home = Blank
    /\ main = Blank

first(s) == s[1].total_portfolio_value
final(s) == s[Len(s)].total_portfolio_value
span(s) == s[Len(s)].current_date - s[1].current_date

\* ---------------------------------------------------------------- Home.py
\* lines 68-79: read the CSV, sort by date, coerce the value column, keep
\* one value per date
Home_load ==
    /\ Home.pc = "load"
    /\ \E sorted \in sort_values(csv) :
          Home' = [Home EXCEPT !.pc = "metrics",
                               !.main_df = coerce(sorted),
                               !.portfolio_values = groupby_last(coerce(sorted))]
    /\ UNCHANGED <<csv, main>>

\* lines 91-94
Home_cagr(pv, days) ==
    IF days > 0 THEN growth(FDiv(final(pv), first(pv)), days) ELSE Zero

\* lines 102-105 without the guard of line 102
unguarded_ratio(cagr, max_drawdown) ==
    [value |-> quotient(cagr, FAbs(max_drawdown)), divisors |-> {FAbs(max_drawdown)}]

\* lines 102-105, with the divisor of line 103 when it is evaluated
Home_sharpe_ratio(cagr, max_drawdown) ==
    IF ~FEq(max_drawdown, Zero)
    THEN [value |-> quotient(cagr, FAbs(max_drawdown)), divisors |-> {FAbs(max_drawdown)}]
    ELSE [value |-> Zero, divisors |-> {}]

\* lines 82-105: .iloc[-1] of an empty series raises IndexError; nothing
\* else raises
Home_metrics ==
    /\ Home.pc = "metrics"
    /\ LET pv == Home.portfolio_values
       IN  IF Len(pv) = 0
           THEN Home' = [Home EXCEPT !.pc = "error", !.error = "IndexError"]
           ELSE LET cagr == Home_cagr(pv, span(pv))
                    dd == drawdown(values(pv))
                    sharpe == Home_sharpe_ratio(cagr, min(dd))
                IN  Home' = [Home EXCEPT
                        !.pc = "done",
                        !.total_return = FSub(FDiv(final(pv), first(pv)), One),
                        !.days = span(pv),
                        !.cagr = cagr,
                        !.drawdown = dd,
                        !.max_drawdown = min(dd),
                        !.sharpe_ratio = sharpe.value,
                        !.divisors = sharpe.divisors]
    /\ UNCHANGED <<csv, main>>

\* ---------------------------------------------------------------- main.py
\* lines 28-30: 1 / years is evaluated unguarded; years is a Python float,
\* so years = 0.0 raises ZeroDivisionError
main_cagr(df, days) ==
    IF days = 0
    THEN [error |-> "ZeroDivisionError", value |-> Unset, divisors |-> {Zero}]
    ELSE [error |-> "none", value |-> growth(FDiv(final(df), first(df)), days),
          divisors |-> {Rat(4 * days, 1461)}]

\* lines 15-34: read the CSV, sort by date, coerce the value column, and
\* compute the KPIs over every row of the frame
main_metrics ==
    /\ main.pc = "load"
    /\ \E sorted \in sort_values(csv) :
          LET df == coerce(sorted)
          IN  IF Len(df) = 0
              THEN main' = [main EXCEPT !.pc = "error", !.error = "IndexError"]
              ELSE LET cagr == main_cagr(df, span(df))
                   IN  main' = [main EXCEPT
                           !.pc = IF cagr.error = "none" THEN "chart" ELSE "error",
                           !.error = cagr.error,
                           !.main_df = df,
                           !.total_return = FSub(FDiv(final(df), first(df)), One),
                           !.days = span(df),
                           !.cagr = cagr.value,
                           !.divisors = cagr.divisors,
                           !.max_drawdown =
                               IF cagr.error = "none"
                               THEN min(drawdown(values(df))) ELSE Unset]
    /\ UNCHANGED <<csv, Home>>

\* lines 108-123: sort the frame again, keep the last value per date, and
\* compute the drawdown series that is plotted
main_chart ==
    /\ main.pc = "chart"
    /\ \E sorted \in sort_values(main.main_df) :
          LET pv == groupby_last(sorted)
          IN  main' = [main EXCEPT !.pc = "done",
                                   !.main_df = sorted,
                                   !.portfolio_values = pv,
                                   !.drawdown = chart_drawdown(values(pv))]
    /\ UNCHANGED <<csv, Home>>

\* One run of one script: the scripts are separate programs that share
\* nothing but the file they read.
Next ==
    \/ main.pc = "load" /\ Home_load
    \/ main.pc = "load" /\ Home_metrics
    \/ Home.pc = "load" /\ main_metrics
    \/ Home.pc = "load" /\ main_chart

Spec == Init /\ [][Next]_vars

\* A run of each script over the same file, in any interleaving.
NextBoth ==
    \/ Home_load
    \/ Home_metrics
    \/ main_metrics
    \/ main_chart

SpecBoth == Init /\ [][NextBoth]_vars

TypeOK ==
    /\ Home.pc \in {"load", "metrics", "done", "error"}
    /\ main.pc \in {"load", "chart", "done", "error"}

\* ----------------------------------------------------------------- claims
\* the state in which a script holds its one-value-per-date series
Home_grouped == Home.pc \in {"metrics", "done", "error"}
main_grouped == main.pc = "done"

\* the frame is the one a sort that keeps input order produces
in_input_order(df) == df = stable_sort(coerce(csv), 1..Len(csv))

finite(a) == a.k \in {"num", "pow", "quot"}

positive(a) == IsNum(a) /\ a.n > 0

\* a non-empty series of positive numbers
valid(s) == Len(s) > 0 /\ \A i \in 1..Len(s) : positive(s[i])

\* C1: every entry of the drawdown series of a non-empty valuation series
\* is <= 0, in Home.py and in the series main.py plots.
C1_DrawdownNonPositive ==
    /\ Home.pc = "done" =>
          \A i \in 1..Len(Home.drawdown) : FLe(Home.drawdown[i], Zero)
    /\ main.pc = "done" =>
          \A i \in 1..Len(main.drawdown) : FLe(main.drawdown[i], Zero)

\* v is the value of the last row of the date in df that satisfies keep,
\* NaN when no row does
LastOf(df, date, v, keep(_)) ==
    LET I == {i \in 1..Len(df) : df[i].current_date = date /\ keep(df[i].total_portfolio_value)}
    IN  IF I = {} THEN IsNaN(v)
        ELSE \E i \in I : v = df[i].total_portfolio_value /\ \A j \in I : j <= i

OnePerDateAscending(pv) ==
    /\ {pv[i].current_date : i \in 1..Len(pv)} = date_index(csv)
    /\ \A i, j \in 1..Len(pv) : i < j => pv[i].current_date < pv[j].current_date

AnyValue(v) == TRUE
Numeric(v) == ~IsNaN(v)

LastWriteWins(S) ==
    /\ OnePerDateAscending(S.portfolio_values)
    /\ \A i \in 1..Len(S.portfolio_values) :
          LastOf(coerce(csv), S.portfolio_values[i].current_date,
                 S.portfolio_values[i].total_portfolio_value, AnyValue)

LastNumericWins(S) ==
    /\ OnePerDateAscending(S.portfolio_values)
    /\ \A i \in 1..Len(S.portfolio_values) :
          LET e == S.portfolio_values[i]
          IN  /\ LastOf(S.main_df, e.current_date, e.total_portfolio_value, Numeric)
              /\ in_input_order(S.main_df) =>
                    LastOf(coerce(csv), e.current_date, e.total_portfolio_value, Numeric)

C3_NoUndefinedEntry ==
    /\ Home_grouped =>
          \A i \in 1..Len(Home.portfolio_values) :
              ~IsNaN(Home.portfolio_values[i].total_portfolio_value)
    /\ main_grouped =>
          \A i \in 1..Len(main.portfolio_values) :
              ~IsNaN(main.portfolio_values[i].total_portfolio_value)

\* C4: a first value that is zero or negative ends the metrics computation
\* with InvalidBaselineError, and no NaN or infinite total_return, cagr or
\* drawdown is handed to the caller.
C4_InvalidBaseline ==
    /\ Home.pc \in {"done", "error"} /\ Len(Home.portfolio_values) > 0
         /\ FLe(first(Home.portfolio_values), Zero)
         => Home.error = "InvalidBaselineError"
    /\ Home.pc = "done" =>
         /\ finite(Home.total_return)
         /\ finite(Home.cagr)
         /\ \A i \in 1..Len(Home.drawdown) : finite(Home.drawdown[i])

\* C5: an empty series ends the metrics computation with
\* InsufficientDataError and with nothing else.
C5_InsufficientData ==
    /\ Home.pc \in {"done", "error"} /\ Len(Home.portfolio_values) = 0
         => Home.error = "InsufficientDataError"
    /\ main.pc \in {"chart", "done", "error"} /\ Len(csv) = 0
         => main.error = "InsufficientDataError"

\* C6: a series of positive values whose first and last dates are equal is
\* computed without error, with total_return, cagr, max_drawdown and
\* risk_ratio all 0 and drawdown [0], and 1 / years is not evaluated.
C6_ZeroSpan ==
    /\ /\ Home.pc \in {"done", "error"}
       /\ valid(values(Home.portfolio_values))
       /\ span(Home.portfolio_values) = 0
       => /\ Home.pc = "done"
          /\ Home.total_return = Zero
          /\ Home.drawdown = <<Zero>>
          /\ Home.max_drawdown = Zero
          /\ Home.cagr = Zero
          /\ Home.sharpe_ratio = Zero
          /\ Zero \notin Home.divisors
    /\ /\ main.pc \in {"chart", "done", "error"}
       /\ valid(values(main.main_df))
       /\ span(main.main_df) = 0
       => /\ main.pc # "error"
          /\ main.cagr = Zero
          /\ Zero \notin main.divisors

NeverDeclines(s) == \A i, j \in 1..Len(s) : i < j => FLe(s[i], s[j])

\* max_drawdown of Home.py against the series it is computed from
C7_Home ==
    Home.pc = "done" /\ valid(values(Home.portfolio_values)) =>
        /\ FEq(Home.max_drawdown, min(Home.drawdown))
        /\ NeverDeclines(values(Home.portfolio_values)) => Home.max_drawdown = Zero

\* the max_drawdown KPI of main.py against the series it then plots, over
\* the steps in which both date sorts kept the input order
C7_main ==
    /\ main_chart
    /\ valid(values(main.main_df))
    /\ in_input_order(main.main_df)
    /\ in_input_order(main'.main_df)
    => /\ FEq(main'.max_drawdown, min(main'.drawdown))
       /\ NeverDeclines(values(main'.portfolio_values)) => main'.max_drawdown = Zero

\* C7: max_drawdown equals the minimum of the drawdown series reported for
\* the same input, and is 0 when the series never declines.
C7_MaxDrawdownIsMin == [](C7_Home) /\ [][C7_main]_vars

\* C8: risk_ratio is cagr / abs(max_drawdown) when max_drawdown is not 0,
\* and 0 when it is 0; line 103 never divides by zero.
C8_RiskRatio ==
    Home.pc = "done" =>
        /\ ~FEq(Home.max_drawdown, Zero) =>
              Home.sharpe_ratio = quotient(Home.cagr, FAbs(Home.max_drawdown))
        /\ FEq(Home.max_drawdown, Zero) => Home.sharpe_ratio = Zero
        /\ Zero \notin Home.divisors

\* a growing or shrinking series with a decline: the ratio is a quotient
\* of a power term by the depth of the decline
C8_Witness ==
    /\ Home.pc = "done"
    /\ Home.cagr.k = "pow"
    /\ Home.max_drawdown = Rat(-1, 2)
    /\ Home.sharpe_ratio.k = "quot"

NewPeak(s, i) == i \in 1..Len(s) /\ \A j \in 1..(i - 1) : FLess(s[j], s[i])
AtPeak(s, i) == i \in 1..Len(s) /\ \A j \in 1..(i - 1) : FLe(s[j], s[i])

ZeroExactlyWhere(s, dd, P(_, _)) ==
    \A i \in 1..Len(s) : IF P(s, i) THEN dd[i] = Zero ELSE FLess(dd[i], Zero)

AtOrAfterNewPeak(s, i) == NewPeak(s, i) \/ NewPeak(s, i - 1)

\* C9 as stated: for a series of positive values the drawdown is 0 exactly
\* at each new running peak and at the index right after it, and strictly
\* negative at every other index.
C9_ZeroAtAndAfterPeak ==
    /\ Home.pc = "done" /\ valid(values(Home.portfolio_values)) =>
          ZeroExactlyWhere(values(Home.portfolio_values), Home.drawdown, AtOrAfterNewPeak)
    /\ main.pc = "done" /\ valid(values(main.portfolio_values)) =>
          ZeroExactlyWhere(values(main.portfolio_values), main.drawdown, AtOrAfterNewPeak)

\* C9 amended: for a series of positive values the drawdown is 0 exactly
\* at the indices whose value is at least every earlier value (a new
\* running peak or a return to it), and strictly negative elsewhere.
C9_ZeroAtPeak ==
    /\ Home.pc = "done" /\ valid(values(Home.portfolio_values)) =>
          ZeroExactlyWhere(values(Home.portfolio_values), Home.drawdown, AtPeak)
    /\ main.pc = "done" /\ valid(values(main.portfolio_values)) =>
          ZeroExactlyWhere(values(main.portfolio_values), main.drawdown, AtPeak)

\* a peak followed by a decline, in the series main.py plots
C9_Witness ==
    /\ main.pc = "done"
    /\ values(main.portfolio_values) = <<Num(2), Num(1)>>
    /\ main.drawdown = <<Zero, Rat(-1, 2)>>

\* the KPIs of main.py against those of Home.py, both computed from frames
\* in input order
C10_KPIs ==
    /\ Home.pc = "done"
    /\ main.pc = "chart"
    /\ valid(values(main.main_df))
    /\ in_input_order(Home.main_df)
    /\ in_input_order(main.main_df)
    => /\ main.total_return = Home.total_return
       /\ main.cagr = Home.cagr
       /\ main.max_drawdown = Home.max_drawdown

\* the max_drawdown KPI of main.py against the series it then plots
C10_chart ==
    /\ main_chart
    /\ valid(values(main.main_df))
    /\ in_input_order(main.main_df)
    /\ in_input_order(main'.main_df)
    => main'.max_drawdown = min(main'.drawdown)

\* C10: on the same rows main.py reports the total_return, cagr and
\* max_drawdown that Home.py reports, and its max_drawdown is the minimum
\* of the drawdown series it plots.
C10_ScriptsAgree == [](C10_KPIs) /\ [][C10_chart]_vars
====
